---- MODULE Spec2Model ----
(***************************************************************************)
(* Persistence and autosave layer of the markdown editor.                  *)
(*                                                                         *)
(* main.ts runs on one event loop.  Every step of the model is one task of *)
(* that loop: a user event, a timer callback, or the completion callback   *)
(* of a storage request together with the code that resumes after the      *)
(* await, up to the next await.  IndexedDB runs the transactions on the    *)
(* one object store in the order they were created, so the requests in     *)
(* flight form a FIFO queue; a request is applied to the store at the step *)
(* that delivers its result.                                               *)
(*                                                                         *)
(* Not modelled: the DOM rendering of updateDocumentList (it changes no    *)
(* program state), copyDocumentContent (the loadDocument call of           *)
(* renameDocument followed by a cancelled prompt), failures of read and    *)
(* delete requests.  The unsaved-changes dialog is taken to be modal for   *)
(* user input: while it is shown, only timers and storage callbacks run.   *)
(***************************************************************************)
EXTENDS Integers, Sequences, FiniteSets, TLC

(* ------------------------------ bounds -------------------------------- *)
(* The events of the environment in one run: edits, clicks, failed storage *)
(* requests and ticks of the clock.                                        *)
MaxOps == 3         \* in a session of the whole program
MaxOpsPart == 5     \* in a session that uses one part of the program

(* --------------------------- program constants ------------------------ *)
DebounceDelay == 1000      \* onUpdate: debounce(autoSave, 1000)
SavedDelay == 2000         \* setTimeout(..., 2000) after a successful save
TickMs == DebounceDelay    \* the clock advances in steps of one quiet window

Handlers == {1, 2}         \* concurrently suspended UI event handlers

NoId == 0                  \* doc.id undefined
NoTimer == -1              \* no timeout scheduled
Unset == -2                \* a date field that is undefined
NullInput == "<null>"      \* prompt() cancelled

TypedContents == {"x", "y"}
TypedNames == {"Document 2", " Notes", " "}

(* String.prototype.trim over the names the model uses. *)
Trim(s) ==
  CASE s = " Notes" -> "Notes"
    [] s = " " -> ""
    [] OTHER -> s

(* JS truthiness of a prompt() result: null and "" are falsy. *)
Truthy(s) == s # NullInput /\ s # ""

(* `Document ${n}` *)
DocumentN(n) == "Document " \o ToString(n)

(* ------------------------------ documents ----------------------------- *)
(* An in-memory Document object.  ref is the identity of an object made by *)
(* the new-document handler (0 for objects returned by a get).             *)
MemDoc(id, name, content, createdAt, updatedAt, lastOpened, ref) ==
  [id |-> id, name |-> name, content |-> content, createdAt |-> createdAt,
   updatedAt |-> updatedAt, lastOpened |-> lastOpened, ref |-> ref]

PutValueEmpty(doc, t) ==
  [id |-> doc.id, name |-> doc.name, content |-> "",
   createdAt |-> doc.createdAt, updatedAt |-> t,
   lastOpened |-> IF doc.lastOpened = Unset THEN t ELSE doc.lastOpened]

(* The value handed to store.put by saveDocument at time t. *)
PutValue(doc, t) ==
  [id |-> doc.id, name |-> doc.name, content |-> doc.content,
   createdAt |-> doc.createdAt, updatedAt |-> t,
   lastOpened |-> IF doc.lastOpened = Unset THEN t ELSE doc.lastOpened]

(* The key store.put stores under: the record's id, or the next key of    *)
(* the autoIncrement generator.                                            *)
PutKey(rec, next) == IF rec.id = NoId THEN next ELSE rec.id

(* store.put committed: the record is stored under its key with the key   *)
(* written to the keyPath "id".                                            *)
StorePut(st, rec, next) ==
  LET k == PutKey(rec, next)
  IN [i \in DOMAIN st \cup {k} |-> IF i = k THEN [rec EXCEPT !.id = k] ELSE st[i]]

StoreDeleteUpTo(st, id) == [i \in {j \in DOMAIN st : j > id} |-> st[i]]

(* store.delete(id) committed. *)
StoreDelete(st, id) == [i \in DOMAIN st \ {id} |-> st[i]]

(* The object a get returns. *)
Loaded(rec) ==
  MemDoc(rec.id, rec.name, rec.content, rec.createdAt, rec.updatedAt,
         rec.lastOpened, 0)

(* index.openCursor(null, 'prev') on updatedAt: descending by updatedAt,   *)
(* then by primary key.                                                    *)
BeforeNext(a, b) ==
  a.updatedAt < b.updatedAt \/ (a.updatedAt = b.updatedAt /\ a.id < b.id)

Before(a, b) ==
  a.updatedAt > b.updatedAt \/ (a.updatedAt = b.updatedAt /\ a.id > b.id)

RECURSIVE ListFrom(_, _)
ListFrom(st, ids) ==
  IF ids = {} THEN <<>>
  ELSE LET first == CHOOSE i \in ids : \A j \in ids \ {i} : Before(st[i], st[j])
       IN <<st[first]>> \o ListFrom(st, ids \ {first})

ListDocuments(st) == ListFrom(st, DOMAIN st)

NamesOf(docs) == {docs[i].name : i \in 1..Len(docs)}

(* generateNextDocumentName, lines 387-393: the first "Document n" not in *)
(* the listing.                                                            *)
RECURSIVE Probe(_, _)
Probe(counter, existingNames) ==
  IF DocumentN(counter) \in existingNames
  THEN Probe(counter + 1, existingNames)
  ELSE DocumentN(counter)

NextCandidate(docs) == Probe(1, NamesOf(docs))

(* getLastOpenedDocument of document.ts: the first record of the          *)
(* lastOpened index read backwards.                                        *)
GetLastOpenedDocument(st) ==
  IF DOMAIN st = {} THEN <<>>
  ELSE LET k == CHOOSE i \in DOMAIN st : \A j \in DOMAIN st \ {i} :
                  \/ st[i].lastOpened > st[j].lastOpened
                  \/ (st[i].lastOpened = st[j].lastOpened /\ i > j)
       IN <<Loaded(st[k])>>

(* getLastOpenedDocument of ui.ts:                                         *)
(* docs.find(doc => doc.lastOpened) || docs[0] || null over listDocuments. *)
GetLastOpenedDocumentUi(st) ==
  LET docs == ListDocuments(st)
      found == {i \in 1..Len(docs) : docs[i].lastOpened # Unset}
  IN IF found # {}
     THEN <<Loaded(docs[CHOOSE i \in found : \A j \in found : i <= j])>>
     ELSE IF Len(docs) > 0 THEN <<Loaded(docs[1])>> ELSE <<>>

(* ------------------------------- state -------------------------------- *)
VARIABLES
  now,                 \* the clock read by new Date() and by the timers, ms
  store,               \* the object store "documents": key -> record
  nextId,              \* the autoIncrement key generator
  currentDocument,     \* <<>> (null) or <<the current Document object>>
  editor,              \* the markdown held by the editor
  hasUnsavedChanges,
  documentSaveStates,  \* Map<number, state>
  timer,               \* the deadline of the debounce timeout, or NoTimer
  reverts,             \* the pending "back to idle" timeouts: [id, at]
  queue,               \* the storage requests in flight, oldest first
  slot,                \* the suspended UI handlers, one per element of Handlers
  nextRef,             \* identities given to objects made by the new-document handler
  budget,              \* events of the environment still allowed
  notified,            \* <<>> or <<the document and content of the last update event>>
  shown                \* history: the (id, content) pairs the editor has shown

vars == <<now, store, nextId, currentDocument, editor, hasUnsavedChanges,
          documentSaveStates, timer, reverts, queue, slot, nextRef, budget, notified,
          shown>>

NoRec == PutValue(MemDoc(NoId, "", "", 0, 0, 0, 0), 0)

PutRequest(owner, doc) ==
  [op |-> "put", owner |-> owner, rec |-> PutValue(doc, now), id |-> doc.id]
GetRequest(owner, id) == [op |-> "get", owner |-> owner, rec |-> NoRec, id |-> id]
ListRequest(owner) == [op |-> "list", owner |-> owner, rec |-> NoRec, id |-> NoId]
DeleteRequest(owner, id) ==
  [op |-> "delete", owner |-> owner, rec |-> NoRec, id |-> id]

(* The put requests in flight, by position in the queue. *)
PutsInFlight(id) ==
  {i \in 1..Len(queue) : queue[i].op = "put" /\ queue[i].id = id}

(* A suspended handler: where it waits (pc), which handler it is (kind), *)
(* its argument (id), its local document object (doc) and candidate name   *)
(* (name).  from, ask, answer and before record, for the properties, the   *)
(* current document and the editor content when the unsaved-changes dialog *)
(* opened, the answer given, and the record as the get of loadDocument     *)
(* read it; kept records the content stored for the current document when  *)
(* the dialog opened, if no save of it was in flight then.                 *)
IdleSlot ==
  [pc |-> "idle", kind |-> "none", id |-> NoId, doc |-> <<>>, name |-> "",
   from |-> NoId, ask |-> "", answer |-> "", before |-> <<>>, kept |-> <<>>]

(* documentSaveStates.get(id) || 'idle' *)
StateOf(id) ==
  IF id \in DOMAIN documentSaveStates THEN documentSaveStates[id] ELSE "idle"

SetState(map, id, state) ==
  [i \in DOMAIN map \cup {id} |-> IF i = id THEN state ELSE map[i]]

CurrentId == IF currentDocument = <<>> THEN NoId ELSE currentDocument[1].id

ModalOpen == \E s \in Handlers : slot[s].pc = "modal"

(* The documents of an earlier session. *)
StoredBefore ==
  [i \in {1, 2} |->
     [id |-> i, name |-> DocumentN(i), content |-> IF i = 1 THEN "a" ELSE "b",
      createdAt |-> 0, updatedAt |-> 0, lastOpened |-> 0]]

InitWith(st, next, events) ==
  /\ now = 0
  /\ store = st
  /\ nextId = next
  /\ currentDocument = GetLastOpenedDocument(st)
  /\ editor = IF st = <<>> THEN "" ELSE GetLastOpenedDocument(st)[1].content
  /\ hasUnsavedChanges = FALSE
  /\ documentSaveStates = <<>>
  /\ timer = NoTimer
  /\ reverts = {}
  /\ queue = <<>>
  /\ slot = [s \in Handlers |-> IdleSlot]
  /\ nextRef = 1
  /\ budget = events
  /\ notified = <<>>
  /\ shown = {[id |-> IF st = <<>> THEN NoId ELSE GetLastOpenedDocument(st)[1].id,
               content |-> IF st = <<>> THEN "" ELSE GetLastOpenedDocument(st)[1].content]}

(* Start of a session over the documents of an earlier one. *)
Init == InitWith(StoredBefore, 3, MaxOps)

(* The same start, for the sessions that use one part of the program. *)
InitPart == InitWith(StoredBefore, 3, MaxOpsPart)

(* First start: the database was just created. *)
InitFresh == InitWith(<<>>, 1, MaxOpsPart)

(* The history kept for the properties: after every step, the id of the    *)
(* current document and the content the editor holds.                      *)
Remember ==
  shown' = shown \cup {[id |-> IF currentDocument' = <<>> THEN NoId
                                ELSE currentDocument'[1].id,
                         content |-> editor']}

(* ------------------------ editor and autosave ------------------------- *)
(* An edit: editor.on('update') sets the dirty flag and the debounced      *)
(* onUpdate clears the pending timeout and sets a new one.                 *)
Edit(c) ==
  /\ budget > 0
  /\ ~ModalOpen
  /\ c # editor
  /\ editor' = c
  /\ hasUnsavedChanges' = TRUE
  /\ timer' = now + DebounceDelay
  /\ notified' = <<[id |-> CurrentId, content |-> c]>>
  /\ budget' = budget - 1
  /\ UNCHANGED <<now, store, nextId, currentDocument, documentSaveStates,
                 reverts, queue, slot, nextRef>>
  /\ Remember

(* autoSave up to its await: lines 49-60. *)
AutoSaveSkips ==
  currentDocument = <<>> \/ currentDocument[1].id = NoId \/ ~hasUnsavedChanges

AutoSave ==
  IF AutoSaveSkips
  THEN UNCHANGED <<currentDocument, documentSaveStates, queue>>
  ELSE LET doc == [currentDocument[1] EXCEPT !.content = editor, !.updatedAt = now]
       IN /\ documentSaveStates' = SetState(documentSaveStates, doc.id, "saving")
          /\ currentDocument' = <<doc>>
          /\ queue' = Append(queue, PutRequest(0, doc))

(* The debounce timeout expires and calls autoSave. *)
DebounceFire ==
  /\ timer # NoTimer
  /\ now >= timer
  /\ timer' = NoTimer
  /\ notified' = <<>>
  /\ AutoSave
  /\ UNCHANGED <<now, store, nextId, editor, hasUnsavedChanges, reverts, slot,
                 nextRef, budget>>
  /\ Remember

(* The put of autoSave succeeded: lines 61-69. *)
AutoSaveDone ==
  /\ queue # <<>>
  /\ Head(queue).owner = 0
  /\ LET req == Head(queue)
     IN /\ store' = StorePut(store, req.rec, nextId)
        /\ documentSaveStates' = SetState(documentSaveStates, req.id, "saved")
        /\ reverts' = reverts \cup {[id |-> req.id, at |-> now + SavedDelay]}
  /\ hasUnsavedChanges' = FALSE
  /\ queue' = Tail(queue)
  /\ UNCHANGED <<now, nextId, currentDocument, editor, timer, slot, nextRef, budget, notified>>
  /\ Remember

(* The put of autoSave failed: lines 70-74. *)
AutoSaveFailed ==
  /\ queue # <<>>
  /\ Head(queue).owner = 0
  /\ budget > 0
  /\ budget' = budget - 1
  /\ documentSaveStates' = SetState(documentSaveStates, Head(queue).id, "idle")
  /\ queue' = Tail(queue)
  /\ UNCHANGED <<now, store, nextId, currentDocument, editor, hasUnsavedChanges,
                 timer, reverts, slot, nextRef, notified>>
  /\ Remember

(* The timeout set after a successful save: lines 66-69. *)
RevertFire(r) ==
  /\ r \in reverts
  /\ now >= r.at
  /\ reverts' = reverts \ {r}
  /\ documentSaveStates' = SetState(documentSaveStates, r.id, "idle")
  /\ UNCHANGED <<now, store, nextId, currentDocument, editor, hasUnsavedChanges,
                 timer, queue, slot, nextRef, budget, notified>>
  /\ Remember

(* The deadlines of the timeouts that are set. *)
Deadlines ==
  (IF timer = NoTimer THEN {} ELSE {timer}) \cup {r.at : r \in reverts}

(* Time passes: one quiet window, or the time to the next deadline.  A     *)
(* timeout that is due runs before the clock moves on.                     *)
Tick ==
  /\ budget > 0
  /\ budget' = budget - 1
  /\ \A d \in Deadlines : d > now
  /\ \E t \in {now + TickMs} \cup {d \in Deadlines : \A e \in Deadlines : d <= e} :
       now' = t
  /\ UNCHANGED <<store, nextId, currentDocument, editor, hasUnsavedChanges,
                 documentSaveStates, timer, reverts, queue, slot, nextRef,
                 notified>>
  /\ Remember

(* --------------------------- UI handlers ------------------------------ *)
(* A new invocation of a handler takes the first free slot. *)
FreeSlot(s) ==
  /\ slot[s].pc = "idle"
  /\ \A t \in Handlers : t < s => slot[t].pc # "idle"

UserEvent(s) ==
  /\ budget > 0
  /\ ~ModalOpen
  /\ FreeSlot(s)
  /\ budget' = budget - 1

(* What newDocBtn's handler and loadDocumentById do once the unsaved-      *)
(* changes branch is behind them: the first await of                       *)
(* generateNextDocumentName (line 384), or of loadDocument (line 140).     *)
ProceedRequest(s, sl) ==
  IF sl.kind = "new" THEN ListRequest(s) ELSE GetRequest(s, sl.id)

ProceedPc(sl) == IF sl.kind = "new" THEN "list1" ELSE "get"

(* The content stored for a document that has no save in flight. *)
StoredContent(id) ==
  IF id \in DOMAIN store /\ PutsInFlight(id) = {}
  THEN <<store[id].content>> ELSE <<>>

(* Lines 104-105 and 131-132: with unsaved changes the handler waits for   *)
(* the dialog, otherwise it goes on.                                       *)
Enter(s, sl) ==
  IF hasUnsavedChanges
  THEN /\ slot' = [slot EXCEPT ![s] = [sl EXCEPT !.pc = "modal",
                                          !.from = CurrentId, !.ask = editor,
                                          !.kept = StoredContent(CurrentId)]]
       /\ UNCHANGED queue
  ELSE /\ slot' = [slot EXCEPT ![s] = [sl EXCEPT !.pc = ProceedPc(sl)]]
       /\ queue' = Append(queue, ProceedRequest(s, sl))

(* Click on the new-document button: lines 103-105. *)
NewDocClick(s) ==
  /\ UserEvent(s)
  /\ Enter(s, [IdleSlot EXCEPT !.kind = "new"])
  /\ UNCHANGED <<now, store, nextId, currentDocument, editor, hasUnsavedChanges,
                 documentSaveStates, timer, reverts, nextRef, notified>>
  /\ Remember

(* Click on a document of the list: loadDocumentById, lines 130-132. *)
SwitchClick(s, id) ==
  /\ UserEvent(s)
  /\ id \in DOMAIN store
  /\ Enter(s, [IdleSlot EXCEPT !.kind = "switch", !.id = id])
  /\ UNCHANGED <<now, store, nextId, currentDocument, editor, hasUnsavedChanges,
                 documentSaveStates, timer, reverts, nextRef, notified>>
  /\ Remember

(* The user answers the dialog with Cancel: lines 106, 133. *)
ModalCancel(s) ==
  /\ slot[s].pc = "modal"
  /\ slot' = [slot EXCEPT ![s] = IdleSlot]
  /\ UNCHANGED <<now, store, nextId, currentDocument, editor, hasUnsavedChanges,
                 documentSaveStates, timer, reverts, queue, nextRef, budget,
                 notified>>
  /\ Remember

(* The user answers Discard: the handler goes on without saving. *)
ModalDiscard(s) ==
  /\ slot[s].pc = "modal"
  /\ slot' = [slot EXCEPT ![s] = [@ EXCEPT !.pc = ProceedPc(slot[s]),
                                     !.answer = "discard"]]
  /\ queue' = Append(queue, ProceedRequest(s, slot[s]))
  /\ UNCHANGED <<now, store, nextId, currentDocument, editor, hasUnsavedChanges,
                 documentSaveStates, timer, reverts, nextRef, budget, notified>>
  /\ Remember

(* The answers prompt() can give: cancelled, the default, or typed text. *)
PromptInputs(default) == {NullInput, default} \cup TypedNames

(* saveCurrentDocument returns without saving: lines 225, 228. *)
SaveReturnsEarly(name) == currentDocument = <<>> \/ ~Truthy(name)

(* The user answers Save: saveCurrentDocument up to its await, lines       *)
(* 225-234, with the answer to its prompt.                                 *)
ModalSave(s) ==
  /\ slot[s].pc = "modal"
  /\ \E name \in PromptInputs(IF currentDocument = <<>> THEN NullInput
                               ELSE currentDocument[1].name) :
       IF SaveReturnsEarly(name)
       THEN /\ slot' = [slot EXCEPT ![s] = [@ EXCEPT !.pc = ProceedPc(slot[s]),
                                               !.answer = "save"]]
            /\ queue' = Append(queue, ProceedRequest(s, slot[s]))
            /\ UNCHANGED currentDocument
       ELSE LET doc == [currentDocument[1] EXCEPT !.name = name, !.updatedAt = now]
            IN /\ currentDocument' = <<doc>>
               /\ slot' = [slot EXCEPT ![s] = [@ EXCEPT !.pc = "flush",
                                                  !.doc = <<doc>>,
                                                  !.answer = "save"]]
               /\ queue' = Append(queue, PutRequest(s, doc))
  /\ UNCHANGED <<now, store, nextId, editor, hasUnsavedChanges,
                 documentSaveStates, timer, reverts, nextRef, budget, notified>>
  /\ Remember

(* currentDocument.id = <result>: the object is the one that was current   *)
(* when saveDocument was called; an object returned by a get already has   *)
(* this id.                                                                *)
AssignId(cur, obj, k) ==
  IF cur # <<>> /\ obj.ref # 0 /\ cur[1].ref = obj.ref
  THEN <<[cur[1] EXCEPT !.id = k]>>
  ELSE cur

NextIdAfter(rec, next) == IF rec.id = NoId THEN next + 1 ELSE next

Mine(s, pc) == queue # <<>> /\ Head(queue).owner = s /\ slot[s].pc = pc

(* The put of saveCurrentDocument succeeded, lines 234-236; the handler    *)
(* goes on.                                                                *)
FlushDone(s) ==
  /\ Mine(s, "flush")
  /\ LET req == Head(queue)
     IN /\ store' = StorePut(store, req.rec, nextId)
        /\ nextId' = NextIdAfter(req.rec, nextId)
        /\ currentDocument' =
             AssignId(currentDocument, slot[s].doc[1], PutKey(req.rec, nextId))
  /\ hasUnsavedChanges' = FALSE
  /\ slot' = [slot EXCEPT ![s] = [@ EXCEPT !.pc = ProceedPc(slot[s]), !.doc = <<>>]]
  /\ queue' = Append(Tail(queue), ProceedRequest(s, slot[s]))
  /\ UNCHANGED <<now, editor, documentSaveStates, timer, reverts, nextRef, budget, notified>>
  /\ Remember

(* The put of saveCurrentDocument failed, lines 237-239; the handler goes  *)
(* on.                                                                     *)
FlushFailed(s) ==
  /\ Mine(s, "flush")
  /\ budget > 0
  /\ budget' = budget - 1
  /\ slot' = [slot EXCEPT ![s] = [@ EXCEPT !.pc = ProceedPc(slot[s]), !.doc = <<>>]]
  /\ queue' = Append(Tail(queue), ProceedRequest(s, slot[s]))
  /\ UNCHANGED <<now, store, nextId, currentDocument, editor, hasUnsavedChanges,
                 documentSaveStates, timer, reverts, nextRef, notified>>
  /\ Remember

(* ------------------------- creating a document ------------------------ *)
(* generateNextDocumentName, lines 384-396: the first listing arrived, the *)
(* candidate is chosen and the listing is requested again.                 *)
NameListed(s) ==
  /\ Mine(s, "list1")
  /\ slot' = [slot EXCEPT ![s] = [@ EXCEPT !.pc = "list2",
                                     !.name = NextCandidate(ListDocuments(store))]]
  /\ queue' = Append(Tail(queue), ListRequest(s))
  /\ UNCHANGED <<now, store, nextId, currentDocument, editor, hasUnsavedChanges,
                 documentSaveStates, timer, reverts, nextRef, budget, notified>>
  /\ Remember

(* Lines 397-404: the name generateNextDocumentName returns, given the     *)
(* second listing and the answer to the naming-conflict prompt.            *)
ChosenName(candidate, refreshedDocs, newName, t) ==
  IF candidate \in NamesOf(refreshedDocs)
  THEN IF Truthy(newName) /\ Trim(newName) # "" THEN Trim(newName)
       ELSE DocumentN(t)
  ELSE candidate

(* The second listing arrived: lines 397-404, then the handler makes the   *)
(* document and saves it, lines 113-122.                                   *)
NameChecked(s) ==
  /\ Mine(s, "list2")
  /\ \E newName \in IF slot[s].name \in NamesOf(ListDocuments(store))
                     THEN PromptInputs(slot[s].name) ELSE {NullInput} :
       LET docName == ChosenName(slot[s].name, ListDocuments(store), newName, now)
           doc == MemDoc(NoId, docName, "", now, now, now, nextRef)
       IN /\ currentDocument' = <<doc>>
          /\ slot' = [slot EXCEPT ![s] = [@ EXCEPT !.pc = "create",
                                             !.doc = <<doc>>, !.name = ""]]
          /\ queue' = Append(Tail(queue), PutRequest(s, doc))
  /\ nextRef' = nextRef + 1
  /\ UNCHANGED <<now, store, nextId, editor, hasUnsavedChanges,
                 documentSaveStates, timer, reverts, budget, notified>>
  /\ Remember

(* The put of the new document succeeded: lines 122-127.  With no current  *)
(* document line 123 throws and the rest is skipped.                       *)
CreateDone(s) ==
  /\ Mine(s, "create")
  /\ LET req == Head(queue)
         cur == AssignId(currentDocument, slot[s].doc[1], PutKey(req.rec, nextId))
     IN /\ store' = StorePut(store, req.rec, nextId)
        /\ nextId' = NextIdAfter(req.rec, nextId)
        /\ currentDocument' = cur
        /\ IF cur = <<>>
           THEN UNCHANGED <<documentSaveStates, editor, hasUnsavedChanges>>
           ELSE /\ documentSaveStates' =
                     IF cur[1].id = NoId THEN documentSaveStates
                     ELSE SetState(documentSaveStates, cur[1].id, "idle")
                /\ editor' = ""
                /\ hasUnsavedChanges' = FALSE
  /\ slot' = [slot EXCEPT ![s] = IdleSlot]
  /\ queue' = Tail(queue)
  /\ UNCHANGED <<now, timer, reverts, nextRef, budget, notified>>
  /\ Remember

(* The put of the new document failed: the handler ends with the           *)
(* rejection at line 122.                                                  *)
CreateFailed(s) ==
  /\ Mine(s, "create")
  /\ budget > 0
  /\ budget' = budget - 1
  /\ slot' = [slot EXCEPT ![s] = IdleSlot]
  /\ queue' = Tail(queue)
  /\ UNCHANGED <<now, store, nextId, currentDocument, editor, hasUnsavedChanges,
                 documentSaveStates, timer, reverts, nextRef, notified>>
  /\ Remember

(* -------------------------- loading a document ------------------------ *)
(* loadDocument, ui.ts lines 249-254: the get found the record; lastOpened *)
(* is set on the object and the object is saved.                           *)
Touched(rec, t) == [Loaded(rec) EXCEPT !.lastOpened = t]

LoadGot(s) ==
  /\ Mine(s, "get")
  /\ slot[s].id \in DOMAIN store
  /\ LET doc == Touched(store[slot[s].id], now)
     IN /\ slot' = [slot EXCEPT ![s] = [@ EXCEPT !.pc = "touch", !.doc = <<doc>>,
                                           !.before = <<store[slot[s].id]>>]]
        /\ queue' = Append(Tail(queue), PutRequest(s, doc))
  /\ UNCHANGED <<now, store, nextId, currentDocument, editor, hasUnsavedChanges,
                 documentSaveStates, timer, reverts, nextRef, budget, notified>>
  /\ Remember

(* ui.ts lines 255-257: no such record; loadDocumentById and               *)
(* renameDocument both end (lines 141, 316).                               *)
LoadMissing(s) ==
  /\ Mine(s, "get")
  /\ slot[s].id \notin DOMAIN store
  /\ slot' = [slot EXCEPT ![s] = IdleSlot]
  /\ queue' = Tail(queue)
  /\ UNCHANGED <<now, store, nextId, currentDocument, editor, hasUnsavedChanges,
                 documentSaveStates, timer, reverts, nextRef, budget, notified>>
  /\ Remember

(* The put of loadDocument failed: both callers catch and end.             *)
LoadFailed(s) ==
  /\ Mine(s, "touch")
  /\ budget > 0
  /\ budget' = budget - 1
  /\ slot' = [slot EXCEPT ![s] = IdleSlot]
  /\ queue' = Tail(queue)
  /\ UNCHANGED <<now, store, nextId, currentDocument, editor, hasUnsavedChanges,
                 documentSaveStates, timer, reverts, nextRef, notified>>
  /\ Remember

(* loadDocumentById, lines 141-147: the document is loaded.                *)
SwitchLoaded(s) ==
  /\ Mine(s, "touch")
  /\ slot[s].kind = "switch"
  /\ store' = StorePut(store, Head(queue).rec, nextId)
  /\ currentDocument' = slot[s].doc
  /\ editor' = slot[s].doc[1].content
  /\ hasUnsavedChanges' = FALSE
  /\ documentSaveStates' = SetState(documentSaveStates, slot[s].id, "idle")
  /\ slot' = [slot EXCEPT ![s] = IdleSlot]
  /\ queue' = Tail(queue)
  /\ UNCHANGED <<now, nextId, timer, reverts, nextRef, budget, notified>>
  /\ Remember

(* ------------------------- renaming a document ------------------------ *)
(* Click on Rename in the context menu: renameDocument, line 315.          *)
RenameClick(s, id) ==
  /\ UserEvent(s)
  /\ id \in DOMAIN store
  /\ slot' = [slot EXCEPT ![s] = [IdleSlot EXCEPT !.kind = "rename", !.id = id,
                                                  !.pc = "get"]]
  /\ queue' = Append(queue, GetRequest(s, id))
  /\ UNCHANGED <<now, store, nextId, currentDocument, editor, hasUnsavedChanges,
                 documentSaveStates, timer, reverts, nextRef, notified>>
  /\ Remember

(* Line 319: the answer to the prompt asks for a rename.                   *)
WantsRename(newName, doc) ==
  Truthy(newName) /\ Trim(newName) # "" /\ newName # doc.name

(* Lines 318-323: what renameDocument does with the answer to its prompt. *)
RenameAnswer(s, newName) ==
  IF WantsRename(newName, slot[s].doc[1])
  THEN /\ slot' = [slot EXCEPT ![s] = [@ EXCEPT !.pc = "check",
                                          !.name = Trim(newName)]]
       /\ queue' = Append(Tail(queue), ListRequest(s))
  ELSE /\ slot' = [slot EXCEPT ![s] = IdleSlot]
       /\ queue' = Tail(queue)

(* renameDocument, lines 316-323: the document is loaded, the user         *)
(* answers the prompt.                                                     *)
RenamePrompt(s) ==
  /\ Mine(s, "touch")
  /\ slot[s].kind = "rename"
  /\ store' = StorePut(store, Head(queue).rec, nextId)
  /\ \E newName \in PromptInputs(slot[s].doc[1].name) : RenameAnswer(s, newName)
  /\ UNCHANGED <<now, nextId, currentDocument, editor, hasUnsavedChanges,
                 documentSaveStates, timer, reverts, nextRef, budget, notified>>
  /\ Remember

(* Line 324: another document has the name. *)
NameTaken(docs, trimmedName, id) ==
  \E i \in 1..Len(docs) : docs[i].name = trimmedName /\ docs[i].id # id

(* Lines 324-327: the listing shows a conflict; nothing is saved.          *)
RenameConflict(s) ==
  /\ Mine(s, "check")
  /\ NameTaken(ListDocuments(store), slot[s].name, slot[s].id)
  /\ slot' = [slot EXCEPT ![s] = IdleSlot]
  /\ queue' = Tail(queue)
  /\ UNCHANGED <<now, store, nextId, currentDocument, editor, hasUnsavedChanges,
                 documentSaveStates, timer, reverts, nextRef, budget, notified>>
  /\ Remember

(* Lines 329-330: no conflict; the loaded object gets the name and is      *)
(* saved.                                                                  *)
RenameAccepted(s) ==
  /\ Mine(s, "check")
  /\ ~NameTaken(ListDocuments(store), slot[s].name, slot[s].id)
  /\ LET doc == [slot[s].doc[1] EXCEPT !.name = slot[s].name]
     IN /\ slot' = [slot EXCEPT ![s] = [@ EXCEPT !.pc = "put", !.doc = <<doc>>]]
        /\ queue' = Append(Tail(queue), PutRequest(s, doc))
  /\ UNCHANGED <<now, store, nextId, currentDocument, editor, hasUnsavedChanges,
                 documentSaveStates, timer, reverts, nextRef, budget, notified>>
  /\ Remember

(* The put of the rename succeeded: line 331. *)
RenameDone(s) ==
  /\ Mine(s, "put")
  /\ store' = StorePut(store, Head(queue).rec, nextId)
  /\ slot' = [slot EXCEPT ![s] = IdleSlot]
  /\ queue' = Tail(queue)
  /\ UNCHANGED <<now, nextId, currentDocument, editor, hasUnsavedChanges,
                 documentSaveStates, timer, reverts, nextRef, budget, notified>>
  /\ Remember

(* The put of the rename failed: lines 333-335. *)
RenameFailed(s) ==
  /\ Mine(s, "put")
  /\ budget > 0
  /\ budget' = budget - 1
  /\ slot' = [slot EXCEPT ![s] = IdleSlot]
  /\ queue' = Tail(queue)
  /\ UNCHANGED <<now, store, nextId, currentDocument, editor, hasUnsavedChanges,
                 documentSaveStates, timer, reverts, nextRef, notified>>
  /\ Remember

(* ------------------------- deleting a document ------------------------ *)
(* Click on Delete in the context menu: deleteDocumentHandler, line 368.   *)
DeleteClick(s, id) ==
  /\ UserEvent(s)
  /\ id \in DOMAIN store
  /\ slot' = [slot EXCEPT ![s] = [IdleSlot EXCEPT !.kind = "delete", !.id = id,
                                                  !.pc = "delete"]]
  /\ queue' = Append(queue, DeleteRequest(s, id))
  /\ UNCHANGED <<now, store, nextId, currentDocument, editor, hasUnsavedChanges,
                 documentSaveStates, timer, reverts, nextRef, notified>>
  /\ Remember

(* The delete succeeded: lines 370-376. *)
DeleteDone(s) ==
  /\ Mine(s, "delete")
  /\ store' = StoreDelete(store, slot[s].id)
  /\ IF CurrentId = slot[s].id
     THEN /\ currentDocument' = <<>>
          /\ editor' = ""
          /\ hasUnsavedChanges' = FALSE
     ELSE UNCHANGED <<currentDocument, editor, hasUnsavedChanges>>
  /\ slot' = [slot EXCEPT ![s] = IdleSlot]
  /\ queue' = Tail(queue)
  /\ UNCHANGED <<now, nextId, documentSaveStates, timer, reverts, nextRef, budget, notified>>
  /\ Remember

(* ---------------------------- specifications -------------------------- *)
(* The session in which the user only types. *)
NextEdit ==
  \/ \E c \in TypedContents : Edit(c)
  \/ DebounceFire
  \/ AutoSaveDone
  \/ AutoSaveFailed
  \/ \E r \in reverts : RevertFire(r)
  \/ Tick

SpecEdit == InitPart /\ [][NextEdit]_vars

(* The clock reaches the next deadline of a timeout that is set. *)
Pass ==
  /\ Deadlines # {}
  /\ \A d \in Deadlines : d > now
  /\ now' = CHOOSE d \in Deadlines : \A e \in Deadlines : d <= e
  /\ UNCHANGED <<store, nextId, currentDocument, editor, hasUnsavedChanges,
                 documentSaveStates, timer, reverts, queue, slot, nextRef,
                 budget, notified>>
  /\ Remember

(* The session in which the user only types and every put succeeds.  Time  *)
(* passes, a timeout that is due runs, and a request in flight completes.  *)
NextEditLive ==
  \/ \E c \in TypedContents : Edit(c)
  \/ DebounceFire
  \/ AutoSaveDone
  \/ \E r \in reverts : RevertFire(r)
  \/ Tick
  \/ Pass

SpecEditLive ==
  /\ InitPart
  /\ [][NextEditLive]_vars
  /\ WF_vars(DebounceFire)
  /\ WF_vars(AutoSaveDone)
  /\ WF_vars(\E r \in reverts : RevertFire(r))
  /\ WF_vars(Pass)

(* The session in which the user only makes documents, from the first     *)
(* start.                                                                  *)
NextCreate ==
  \/ \E s \in Handlers : NewDocClick(s)
  \/ \E s \in Handlers : NameListed(s)
  \/ \E s \in Handlers : NameChecked(s)
  \/ \E s \in Handlers : CreateDone(s)
  \/ \E s \in Handlers : CreateFailed(s)
  \/ Tick

SpecCreate == InitFresh /\ [][NextCreate]_vars

Next ==
  \/ \E c \in TypedContents : Edit(c)
  \/ DebounceFire
  \/ AutoSaveDone
  \/ AutoSaveFailed
  \/ \E r \in reverts : RevertFire(r)
  \/ Tick
  \/ \E s \in Handlers : NewDocClick(s)
  \/ \E s \in Handlers, id \in DOMAIN store : SwitchClick(s, id)
  \/ \E s \in Handlers : ModalCancel(s)
  \/ \E s \in Handlers : ModalDiscard(s)
  \/ \E s \in Handlers : ModalSave(s)
  \/ \E s \in Handlers : FlushDone(s)
  \/ \E s \in Handlers : FlushFailed(s)
  \/ \E s \in Handlers : NameListed(s)
  \/ \E s \in Handlers : NameChecked(s)
  \/ \E s \in Handlers : CreateDone(s)
  \/ \E s \in Handlers : CreateFailed(s)
  \/ \E s \in Handlers : LoadGot(s)
  \/ \E s \in Handlers : LoadMissing(s)
  \/ \E s \in Handlers : LoadFailed(s)
  \/ \E s \in Handlers : SwitchLoaded(s)
  \/ \E s \in Handlers, id \in DOMAIN store : RenameClick(s, id)
  \/ \E s \in Handlers : RenamePrompt(s)
  \/ \E s \in Handlers : RenameConflict(s)
  \/ \E s \in Handlers : RenameAccepted(s)
  \/ \E s \in Handlers : RenameDone(s)
  \/ \E s \in Handlers : RenameFailed(s)
  \/ \E s \in Handlers, id \in DOMAIN store : DeleteClick(s, id)
  \/ \E s \in Handlers : DeleteDone(s)

Spec == Init /\ [][Next]_vars

(* ------------------------------ properties ---------------------------- *)
(* C1: flush-then-switch.  When loadDocumentById(B) ends with B as the     *)
(* current document, the dialog having opened on the dirty document A and  *)
(* the answer not being Discard, the stored content of A is the editor     *)
(* content A had when the switch was requested.                            *)
C1_FlushThenSwitch ==
  [][\A s \in Handlers :
       (/\ SwitchLoaded(s)
        /\ slot[s].from # NoId
        /\ slot[s].from # slot[s].id
        /\ slot[s].answer = "save")
       => /\ slot[s].from \in DOMAIN store'
          /\ store'[slot[s].from].content = slot[s].ask]_vars

(* C2: debounce collapse.  When the debounce timeout of a burst of update  *)
(* events on the open persisted document expires, the quiet window has     *)
(* passed since the last of them and autoSave issues exactly one put,      *)
(* which carries the editor content of the last event.                     *)
C2_DebounceCollapse ==
  [][(/\ DebounceFire
      /\ notified # <<>>
      /\ notified[1].id # NoId
      /\ notified[1].id = CurrentId)
     => /\ now >= timer
        /\ Len(queue') = Len(queue) + 1
        /\ queue'[Len(queue')].op = "put"
        /\ queue'[Len(queue')].owner = 0
        /\ queue'[Len(queue')].id = notified[1].id
        /\ queue'[Len(queue')].rec.content = notified[1].content]_vars

(* C3: single-flight.  At most one put per document id is in flight.       *)
C3_SingleFlight ==
  \A id \in DOMAIN store : Cardinality(PutsInFlight(id)) <= 1

(* C4: save-state lifecycle on success.  The put of autoSave that         *)
(* succeeds enters saved and clears the dirty flag; the timeout set by a   *)
(* successful save issues no put and sets idle; it does not run while a    *)
(* save of the document is in flight, and ends no saved state that a later *)
(* save of the document entered.                                           *)
C4_SaveLifecycle ==
  [][/\ AutoSaveDone
        => /\ documentSaveStates'[Head(queue).id] = "saved"
           /\ ~hasUnsavedChanges'
     /\ \A r \in reverts :
          RevertFire(r)
          => /\ queue' = queue
             /\ documentSaveStates'[r.id] = "idle"
             /\ StateOf(r.id) = "saved"
             /\ \A q \in reverts : q.id = r.id => q.at <= r.at]_vars

(* C5: save-state on failure.  When the put of autoSave fails, the state   *)
(* goes from saving to idle, no timeout is set, the store is unchanged and *)
(* the dirty flag is true afterwards.                                      *)
C5_SaveFailure ==
  [][AutoSaveFailed
     => /\ StateOf(Head(queue).id) = "saving"
        /\ documentSaveStates'[Head(queue).id] = "idle"
        /\ reverts' = reverts
        /\ store' = store
        /\ hasUnsavedChanges']_vars

(* C6: name uniqueness under concurrency.  Documents made by create        *)
(* sequences, in any interleaving, are stored under distinct names.        *)
C6_DistinctNames ==
  \A i, j \in DOMAIN store : i # j => store[i].name # store[j].name

(* C7: rename conflict.  When renameDocument(A) is rejected because        *)
(* another document has the proposed name, the stored record of A is the   *)
(* record as it was when the call began.                                   *)
C7_RenameConflict ==
  [][\A s \in Handlers :
       RenameConflict(s)
       => /\ slot[s].id \in DOMAIN store'
          /\ store'[slot[s].id] = slot[s].before[1]]_vars

(* C8: identity stability.  Every record is stored under its own id; a    *)
(* put of a document that has id k writes the record under key k, adds no  *)
(* other key, changes no other record and takes no key from the generator; *)
(* once the document object made by the new-document handler has an id,    *)
(* no save of that object gives it another id.                             *)
C8_IdentityStable ==
  [][/\ \A k \in DOMAIN store' : store'[k].id = k
     /\ (/\ queue # <<>>
         /\ Head(queue).op = "put"
         /\ Head(queue).id # NoId
         /\ store' # store)
        => LET k == Head(queue).id
           IN /\ DOMAIN store' = DOMAIN store \cup {k}
              /\ \A i \in DOMAIN store \ {k} : store'[i] = store[i]
              /\ store'[k] = Head(queue).rec
              /\ nextId' = nextId
     /\ (/\ currentDocument # <<>>
         /\ currentDocument' # <<>>
         /\ currentDocument[1].id # NoId
         /\ currentDocument[1].ref # 0
         /\ currentDocument'[1].ref = currentDocument[1].ref)
        => currentDocument'[1].id = currentDocument[1].id]_vars

(* C9: monotonic recency.  The stored updatedAt and lastOpened of a        *)
(* document never decrease.                                                *)
C9_MonotonicRecency ==
  [][\A k \in DOMAIN store \cap DOMAIN store' :
       /\ store'[k].updatedAt >= store[k].updatedAt
       /\ store'[k].lastOpened >= store[k].lastOpened]_vars

(* C10: a load of an existing document stores the new lastOpened and       *)
(* leaves the stored updatedAt, name, content and createdAt as they were   *)
(* when the load read the record.                                          *)
C10_LoadKeepsRecord ==
  [][\A s \in Handlers :
       (SwitchLoaded(s) \/ RenamePrompt(s))
       => /\ slot[s].id \in DOMAIN store'
          /\ store'[slot[s].id] =
               [slot[s].before[1] EXCEPT !.lastOpened = slot[s].doc[1].lastOpened]]_vars

(* C11: listing order.  In every reachable state listDocuments returns    *)
(* exactly the stored records, each once, and of two adjacent entries the  *)
(* earlier one has updatedAt >= the later one.                             *)
C11_ListingOrder ==
  LET docs == ListDocuments(store)
  IN /\ Len(docs) = Cardinality(DOMAIN store)
     /\ \A i \in 1..Len(docs) :
          docs[i].id \in DOMAIN store /\ docs[i] = store[docs[i].id]
     /\ \A i, j \in 1..Len(docs) : i # j => docs[i].id # docs[j].id
     /\ \A i \in 1..(Len(docs) - 1) : docs[i].updatedAt >= docs[i + 1].updatedAt

(* Puts have left a record with a smaller key newer than one with a        *)
(* greater key, and the listing starts with the newer one.                 *)
C11_Witness ==
  \E i, j \in DOMAIN store :
    /\ i < j
    /\ store[i].updatedAt > store[j].updatedAt
    /\ ListDocuments(store)[1].updatedAt >= store[i].updatedAt

(* C12: idempotent delete.  A delete that completes leaves no record      *)
(* under its id and changes no other record, whether the id was present or *)
(* absent; a delete of an id that an earlier delete removed leaves the     *)
(* store exactly as it was.                                                *)
C12_IdempotentDelete ==
  [][\A s \in Handlers :
       DeleteDone(s)
       => /\ DOMAIN store' = DOMAIN store \ {slot[s].id}
          /\ \A k \in DOMAIN store' : store'[k] = store[k]
          /\ (slot[s].id \notin DOMAIN store => store' = store)]_vars

(* A delete has removed the record and a second delete of the same id is   *)
(* in flight.                                                              *)
C12_Witness ==
  \E s \in Handlers :
    /\ slot[s].pc = "delete"
    /\ slot[s].id \notin DOMAIN store
    /\ slot[s].id < nextId
    /\ queue # <<>>
    /\ Head(queue) = DeleteRequest(s, slot[s].id)

(* C13: fresh identities are never reused.  Every key of the store is     *)
(* below the key generator; a key that appears in the store is the next    *)
(* key of the generator, greater than every key assigned before, and the   *)
(* generator moves past it; so no key that was assigned and deleted is a   *)
(* key of the store again.                                                 *)
C13_FreshIds ==
  [][/\ \A k \in DOMAIN store : k < nextId
     /\ nextId' >= nextId
     /\ \A k \in DOMAIN store' \ DOMAIN store :
          k = nextId /\ nextId' = nextId + 1]_vars

(* C14: explicit delete is final.  The ids below the key generator that    *)
(* are not in the store are those of deleted documents; no listing taken   *)
(* after a step holds a document with such an id.                          *)
C14_DeleteFinal ==
  [][\A k \in 1..(nextId - 1) :
       k \notin DOMAIN store
       => \A i \in 1..Len(ListDocuments(store')) : ListDocuments(store')[i].id # k]_vars

(* C15: forced flush versus debounce timer.  When saveCurrentDocument     *)
(* issues its put no debounce timeout is left pending, and the debounce    *)
(* timeout that runs while that put is in flight issues no put.            *)
C15_FlushCancelsTimer ==
  [][/\ \A s \in Handlers :
          (ModalSave(s) /\ slot'[s].pc = "flush") => timer' = NoTimer
     /\ (DebounceFire /\ \E s \in Handlers : slot[s].pc = "flush")
        => queue' = queue]_vars

(* C16: an explicit Discard is honoured.  When the switch or the creation *)
(* that followed the answer Discard completes, the content stored for the  *)
(* document that was left is the content that was stored for it when the   *)
(* dialog opened.                                                          *)
C16_DiscardHonoured ==
  [][\A s \in Handlers :
       (/\ SwitchLoaded(s) \/ CreateDone(s)
        /\ slot[s].answer = "discard"
        /\ slot[s].kept # <<>>
        /\ slot[s].from \in DOMAIN store')
       => store'[slot[s].from].content = slot[s].kept[1]]_vars

(* C17: most recent by lastOpened.  Each implementation of                *)
(* getLastOpenedDocument returns null exactly when the store is empty,     *)
(* otherwise a stored document whose lastOpened is >= that of every stored *)
(* document, and the two return the same document.                         *)
C17_MostRecentOpened ==
  \A got \in {GetLastOpenedDocument(store), GetLastOpenedDocumentUi(store)} :
    /\ got = <<>> <=> DOMAIN store = {}
    /\ got # <<>>
       => /\ got[1].id \in DOMAIN store
          /\ got[1] = Loaded(store[got[1].id])
          /\ \A k \in DOMAIN store : got[1].lastOpened >= store[k].lastOpened
          /\ got = GetLastOpenedDocument(store)

(* C18: create persists immediately.  When the new-document handler      *)
(* completes after a successful put, the current document has an id, the   *)
(* listing holds a record with that id and empty content, the dirty flag   *)
(* is false and the save state of that id is idle; every listed document   *)
(* has an id.                                                              *)
C18_CreatePersists ==
  [][/\ \A s \in Handlers :
          CreateDone(s)
          => /\ currentDocument' # <<>>
             /\ currentDocument'[1].id # NoId
             /\ \E i \in 1..Len(ListDocuments(store')) :
                  /\ ListDocuments(store')[i].id = currentDocument'[1].id
                  /\ ListDocuments(store')[i].content = ""
             /\ ~hasUnsavedChanges'
             /\ currentDocument'[1].id \in DOMAIN documentSaveStates'
             /\ documentSaveStates'[currentDocument'[1].id] = "idle"
     /\ \A i \in 1..Len(ListDocuments(store')) :
          ListDocuments(store')[i].id # NoId]_vars

(* C19: rename no-op.  When the answer to the prompt of renameDocument,   *)
(* trimmed, is the name the document has, the call ends there and the      *)
(* stored record is the record as it was when the call read it.            *)
C19_RenameNoOp ==
  [][\A s \in Handlers :
       \A newName \in PromptInputs(IF slot[s].doc = <<>> THEN NullInput
                                    ELSE slot[s].doc[1].name) :
         (/\ RenamePrompt(s)
          /\ RenameAnswer(s, newName)
          /\ Truthy(newName)
          /\ Trim(newName) = slot[s].doc[1].name)
         => /\ slot'[s].pc = "idle"
            /\ slot[s].id \in DOMAIN store'
            /\ store'[slot[s].id] = slot[s].before[1]]_vars

(* C20: name validation.  No stored document has a name that is empty or  *)
(* consists of whitespace only.                                            *)
C20_NamesNotBlank ==
  \A k \in DOMAIN store : Trim(store[k].name) # ""

(* C21: edits are eventually persisted.  In the session in which the user *)
(* only types, stops after finitely many edits, and every put succeeds,    *)
(* from some point on the stored content of the open document is the       *)
(* editor content and the dirty flag is false.                             *)
C21_EventuallyPersisted ==
  <>[](/\ CurrentId \in DOMAIN store
       /\ store[CurrentId].content = editor
       /\ ~hasUnsavedChanges)

(* The puts in flight that autoSave or saveCurrentDocument issued under    *)
(* an id.                                                                  *)
EditorPuts ==
  {i \in 1..Len(queue) :
     /\ queue[i].op = "put"
     /\ queue[i].id # NoId
     /\ \/ queue[i].owner = 0
        \/ slot[queue[i].owner].pc = "flush"}

C23_UniqueNames ==
  Cardinality(NamesOf(ListDocuments(store))) = Len(ListDocuments(store))

(* The names that only renameDocument stores: it alone trims the answer   *)
(* to its prompt.                                                          *)
RenamedNames == {Trim(n) : n \in TypedNames} \ (TypedNames \cup {""})

(* C24: a committed rename is not undone by a later save.  A stored name   *)
(* that a rename committed changes only when a put of renameDocument, or a *)
(* put of saveCurrentDocument with the name from its prompt, commits for   *)
(* that document; and the put of a rename leaves the stored content as it  *)
(* is.                                                                     *)
C24_RenameKept ==
  [][\A k \in DOMAIN store \cap DOMAIN store' :
       /\ (store[k].name \in RenamedNames /\ store'[k].name # store[k].name)
          => \E s \in Handlers :
               (RenameDone(s) \/ FlushDone(s)) /\ Head(queue).id = k
       /\ (\E s \in Handlers : RenameDone(s) /\ Head(queue).id = k)
          => store'[k].content = store[k].content]_vars

(* The puts of autoSave in flight for a document: autoSave awaits          *)
(* saveDocument(currentDocument) outside any handler of the document list. *)
AutoSavePuts(id) ==
  {i \in PutsInFlight(id) : queue[i].owner = 0}

(* C25: the save state matches the write in flight.  In every reachable    *)
(* state a document with a put of autoSave in flight is in state saving;   *)
(* the timeout set by a successful save never runs while a put of autoSave *)
(* for its document is in flight, and never runs while the timeout of a    *)
(* later successful save of the document still has time to go.             *)
C25_SavingWhileInFlight ==
  /\ [](\A id \in DOMAIN documentSaveStates \cup {queue[i].id : i \in 1..Len(queue)} :
          AutoSavePuts(id) # {} => StateOf(id) = "saving")
  /\ [][\A r \in reverts :
          RevertFire(r)
          => /\ AutoSavePuts(r.id) = {}
             /\ \A q \in reverts : q.id = r.id => q.at <= now]_vars

====
